---------------------------- MODULE Spec2Model ----------------------------
(***************************************************************************)
(* Jeopardy Live: the room registry and room state machine of the          *)
(* socket.io server.                                                       *)
(*                                                                         *)
(* The repository holds the server twice:                                  *)
(*                                                                         *)
(*   src/server.js          every handler runs to completion; createRoom   *)
(*                          and newRound build the board from the local    *)
(*                          question bank.                                 *)
(*   src/unnamed/part_002   createRoom and newRound await a board built    *)
(*                          from OpenTDB; other handlers run in between.   *)
(*                                                                         *)
(*   Spec        server.js, a BUZZER room in play with two players         *)
(*   SpecRounds  server.js, rooms of both modes over several rounds        *)
(*   SpecIndexes server.js, requests with team indexes of every kind       *)
(*   SpecPlay    server.js, picks on and off the board, buzzes by          *)
(*               everybody, a player joining twice                         *)
(*   SpecTeams   server.js, team names of every shape and scores up and    *)
(*               down                                                      *)
(*   SpecReuse   server.js, a code used again after its room has ended     *)
(*   SpecLobby   server.js, two sockets creating, joining and leaving      *)
(*               rooms under two codes                                     *)
(*   SpecTdb     part_002, two sockets creating rooms, one player          *)
(*   SpecBoards  either server, boards over many draws, banks and          *)
(*               provider answers                                          *)
(*                                                                         *)
(* Numbers that the code never rounds (team indexes) are kept in fixed     *)
(* point with one binary digit after the point: the JavaScript number x is *)
(* the integer 2x, so 1 is 2 and 1.5 is 3.  Num(i) is the integer i.       *)
(* JavaScript arrays are 0-based, sequences 1-based: a[i] is a[i + 1].     *)
(***************************************************************************)
EXTENDS Integers, Sequences, FiniteSets, TLC

VARIABLES
    program,        \* the server file that runs: "server.js" or "part_002"
    QUESTION_BANK,  \* the bank loaded at start-up (server.js:17-23)
    rooms,          \* the Map code -> room, as its entries {code, ref} in
                    \* insertion order; ref is the room object's place in heap
    heap,           \* the room objects that the Map or a suspended handler holds
    pending,        \* the async handlers suspended at their await
    open,           \* ids of the sockets that are connected
    channels,       \* socket id -> the socket.io rooms (codes) it has joined
    out,            \* what the last handler emitted, in order
    server          \* "up", "hung" (a handler that never returns) or
                    \* "crashed" (a handler threw: the process has exited)

vars == <<program, QUESTION_BANK, rooms, heap, pending, open, channels, out, server>>

(***************************************************************************)
(* Bounds of the model.                                                    *)
(***************************************************************************)
MaxSockets == 3      \* sockets connected to the server
MaxScore == 100      \* a score handler is explored while |score| <= MaxScore
MaxDraws == 3        \* random draws explored for the daily-double loop
MaxPending == 2      \* async handlers suspended at the same time

SocketIds == 1..MaxSockets

(***************************************************************************)
(* JavaScript values.                                                      *)
(***************************************************************************)
Num(i) == 2 * i
IsWhole(x) == x % 2 = 0
Min2(a, b) == IF a < b THEN a ELSE b
Max2(a, b) == IF a > b THEN a ELSE b
\* A value handed to Number(): finite numbers carry their fixed-point value,
\* everything else (undefined, "abc", NaN, Infinity) is not finite.
JsNum(h) == [finite |-> TRUE, h |-> h]
JsNaN == [finite |-> FALSE, h |-> 0]
NULL == [null |-> TRUE]

SeqToSet(s) == {s[i] : i \in 1..Len(s)}


(***************************************************************************)
(* Game configuration (server.js:25-28).                                   *)
(***************************************************************************)
CATEGORIES == <<"Math", "Science", "Sports", "Pop Culture", "Family Trivia", "Geography">>
VALUE_ROWS == <<100, 200, 300, 400, 500>>
DIFF_BY_ROW == <<"easy", "easy", "medium", "medium", "hard">>

(***************************************************************************)
(* makeCode (server.js:33-38): len characters of chars, one per draw of    *)
(* Math.floor(Math.random() * chars.length).  A code is the sequence of    *)
(* its characters.                                                         *)
(***************************************************************************)
chars == <<"A", "B", "C", "D", "E", "F", "G", "H", "J", "K", "L", "M", "N", "P", "Q", "R",
           "S", "T", "U", "V", "W", "X", "Y", "Z", "2", "3", "4", "5", "6", "7", "8", "9">>
len == 5
makeCode(draws) == [i \in 1..len |-> chars[draws[i] + 1]]

\* The draws makeCode makes in this model, and the codes they give.
CodeDraws == {<<0, 0, 0, 0, 0>>, <<10, 31, 0, 23, 24>>}
CodeSpace == {makeCode(d) : d \in CodeDraws}

(***************************************************************************)
(* clampTeam (server.js:39-43).  n is a JavaScript value; the result is a  *)
(* fixed-point number.  Math.max and Math.min do not round.                *)
(***************************************************************************)
clampTeam(n) ==
    IF ~n.finite THEN Num(0)
    ELSE Max2(Num(0), Min2(Num(2), n.h))

(***************************************************************************)
(* The question bank: items {id, category, difficulty, question, answer}.  *)
(***************************************************************************)
getPool(category, difficulty) ==
    {q \in QUESTION_BANK : q.category = category /\ q.difficulty = difficulty}

(***************************************************************************)
(* pickQuestion (server.js:61-70).  usedQuestionIds is the room's set      *)
(* before the call; the result is every outcome the random index allows:   *)
(* the question returned (found = FALSE for null) and the set after.       *)
(***************************************************************************)
pickQuestion(usedQuestionIds, category, difficulty) ==
    LET pool == getPool(category, difficulty)
        unused == {q \in pool : q.id \notin usedQuestionIds}
        pickFrom == IF unused # {} THEN unused ELSE pool
    IN  IF pool = {}
        THEN {[found |-> FALSE, q |-> NULL, usedQuestionIds |-> usedQuestionIds]}
        ELSE {[found |-> TRUE, q |-> q, usedQuestionIds |-> usedQuestionIds \cup {q.id}]
                : q \in pickFrom}

(***************************************************************************)
(* The daily-double loop (server.js:97-103): draws are the successive      *)
(* values of Math.floor(Math.random() * 30).  ddLoop gives the set after   *)
(* the draws; the loop has ended once the set holds two positions.         *)
(***************************************************************************)
RECURSIVE ddLoopAnyRow(_, _)
ddLoopAnyRow(draws, ddPositions) ==
    IF Cardinality(ddPositions) >= 2 \/ draws = <<>> THEN ddPositions
    ELSE ddLoopAnyRow(Tail(draws), ddPositions \cup {Head(draws)})

RECURSIVE ddLoop(_, _)
ddLoop(draws, ddPositions) ==
    IF Cardinality(ddPositions) >= 2 \/ draws = <<>> THEN ddPositions
    ELSE LET p == Head(draws)
             row == p \div 6
         IN  IF row = 0 THEN ddLoop(Tail(draws), ddPositions)
             ELSE ddLoop(Tail(draws), ddPositions \cup {p})

\* The loop ends exactly at the last of these draws.
ddLoopEndsAt(draws) ==
    /\ draws # <<>>
    /\ Cardinality(ddLoop(draws, {})) = 2
    /\ Cardinality(ddLoop(SubSeq(draws, 1, Len(draws) - 1), {})) < 2

\* server.js:104-108: categories[col].clues[row].dd = true for each position.
markDailyDoubles(categories, ddPositions) ==
    [c \in 1..Len(categories) |->
        [categories[c] EXCEPT !.clues =
            [r \in 1..Len(@) |->
                IF \E p \in ddPositions : p % 6 = c - 1 /\ p \div 6 = r - 1
                THEN [@[r] EXCEPT !.dd = TRUE]
                ELSE @[r]]]]

(***************************************************************************)
(* buildGameFromBank (server.js:72-118).  The clues are picked category by *)
(* category, row by row; bankCells(k, ...) has picked the first k of the   *)
(* 30 cells.  The result is the set of {game, usedQuestionIds} outcomes    *)
(* for the given daily-double draws.                                       *)
(***************************************************************************)
RECURSIVE bankCells(_, _, _)
bankCells(k, usedQuestionIds, cells) ==
    IF k = Len(CATEGORIES) * Len(VALUE_ROWS)
    THEN {[cells |-> cells, usedQuestionIds |-> usedQuestionIds]}
    ELSE LET c == k \div Len(VALUE_ROWS)
             r == k % Len(VALUE_ROWS)
             name == CATEGORIES[c + 1]
         IN  UNION { bankCells(k + 1, o.usedQuestionIds,
                        Append(cells,
                            [value |-> VALUE_ROWS[r + 1],
                             q |-> IF o.found THEN o.q.question
                                   ELSE "[" \o name \o "] No question found",
                             a |-> IF o.found THEN o.q.answer ELSE "No answer",
                             used |-> FALSE,
                             dd |-> FALSE]))
                     : o \in pickQuestion(usedQuestionIds, name, DIFF_BY_ROW[r + 1]) }

\* server.js:111: the first of three picks that finds a question.
finalPick(usedQuestionIds) ==
    LET first == pickQuestion(usedQuestionIds, "Family Trivia", "hard")
        second == pickQuestion(usedQuestionIds, "Pop Culture", "hard")
        third == pickQuestion(usedQuestionIds, "Science", "hard")
    IN  IF \A o \in first : o.found THEN first
        ELSE IF \A o \in second : o.found THEN second
        ELSE third

buildGameFromBank(usedQuestionIds, draws) ==
    UNION {
      { [game |->
           [title |-> "Jeopardy Live",
            categories |->
               markDailyDoubles(
                   [c \in 1..Len(CATEGORIES) |->
                       [name |-> CATEGORIES[c],
                        clues |-> SubSeq(b.cells, (c - 1) * Len(VALUE_ROWS) + 1,
                                         c * Len(VALUE_ROWS))]],
                   ddLoop(draws, {})),
            final |-> [category |-> "Final Jeopardy",
                       q |-> IF fj.found THEN fj.q.question ELSE "Final question",
                       a |-> IF fj.found THEN fj.q.answer ELSE "Answer"]],
         usedQuestionIds |-> fj.usedQuestionIds]
        : fj \in finalPick(b.usedQuestionIds) }
      : b \in bankCells(0, usedQuestionIds, <<>>) }

(***************************************************************************)
(* Strings the code edits are sequences of characters.                     *)
(***************************************************************************)
IsSpace(ch) == ch \in {" ", "\t", "\n"}

RECURSIVE trimStart(_)
trimStart(str) ==
    IF str # <<>> /\ IsSpace(Head(str)) THEN trimStart(Tail(str)) ELSE str

RECURSIVE trimEnd(_)
trimEnd(str) ==
    IF str # <<>> /\ IsSpace(str[Len(str)])
    THEN trimEnd(SubSeq(str, 1, Len(str) - 1))
    ELSE str

\* String.prototype.trim
trim(str) == trimEnd(trimStart(str))
\* str.slice(0, n)
slice(str, n) == SubSeq(str, 1, Min2(n, Len(str)))
\* a || b on strings: the empty string (and undefined, also <<>> here) is falsy
OrElse(a, b) == IF a = <<>> THEN b ELSE a

Digit(i) == <<"0", "1", "2", "3", "4", "5", "6", "7", "8", "9">>[i + 1]
StrHost == <<"H", "o", "s", "t">>
StrPlayer == <<"P", "l", "a", "y", "e", "r">>
\* `Team ${n}`
StrTeam(n) == <<"T", "e", "a", "m", " ", Digit(n)>>

(***************************************************************************)
(* The rooms Map (server.js:31) and the room objects.  A handler holds a   *)
(* room by reference: what it writes is seen through every reference, and  *)
(* an object the Map has dropped lives on while a suspended handler holds  *)
(* it.                                                                     *)
(***************************************************************************)
has(code) == \E i \in 1..Len(rooms) : rooms[i].code = code
at(code) == CHOOSE i \in 1..Len(rooms) : rooms[i].code = code
refOf(code) == rooms[at(code)].ref
get(code) == IF has(code) THEN heap[refOf(code)] ELSE NULL
\* rooms.set(code, room): a new key is appended, a present key keeps its place
set(code, ref) ==
    IF has(code) THEN [rooms EXCEPT ![at(code)].ref = ref]
    ELSE Append(rooms, [code |-> code, ref |-> ref])
\* rooms.delete(code)
delete(code) ==
    LET f[i \in 0..Len(rooms)] ==
            IF i = 0 THEN <<>>
            ELSE IF rooms[i].code # code THEN Append(f[i - 1], rooms[i]) ELSE f[i - 1]
    IN  f[Len(rooms)]
\* the place of a new object
newRef == CHOOSE n \in 1..(Cardinality(DOMAIN heap) + 1) : n \notin DOMAIN heap
\* the objects still referenced from the Map entries rs or the handlers ps
collect(h, rs, ps) ==
    [n \in {n \in DOMAIN h : \/ \E i \in 1..Len(rs) : rs[i].ref = n
                            \/ \E p \in ps : p.ref = n} |-> h[n]]
\* room objects of the Map, in its order
live == [i \in 1..Len(rooms) |-> heap[rooms[i].ref]]

(***************************************************************************)
(* publicState (server.js:120-132).  Array.from(room.players.values()) is  *)
(* taken as the set of the values.                                         *)
(***************************************************************************)
publicState(room) ==
    [code |-> room.code,
     hostName |-> room.hostName,
     mode |-> room.mode,
     teams |-> room.teams,
     players |-> {room.players[id] : id \in DOMAIN room.players},
     game |-> room.game,
     active |-> room.active,
     turn |-> room.turn,
     buzzer |-> room.buzzer]

(***************************************************************************)
(* Emitting.  io.to(code) reaches the connected sockets that joined the    *)
(* socket.io room code; socket.emit reaches the socket itself.             *)
(***************************************************************************)
members(code) == {id \in open : code \in channels[id]}
roomUpdate(code, room) ==
    [ev |-> "room:update", to |-> members(code), code |-> code, state |-> publicState(room)]
roomCreated(socket, code, room) ==
    [ev |-> "room:created", to |-> {socket}, code |-> code, state |-> publicState(room)]
playerJoined(socket, code, room) ==
    [ev |-> "player:joined", to |-> {socket}, code |-> code, state |-> publicState(room)]
roomError(socket) ==
    [ev |-> "room:error", to |-> {socket}, message |-> "Room not found."]
roomEnded(code) ==
    [ev |-> "room:ended", to |-> members(code), code |-> code]

\* A handler that returns without doing anything.
Ignored ==
    /\ out' = <<>>
    /\ UNCHANGED <<program, QUESTION_BANK, rooms, heap, pending, open, channels, server>>

\* A handler that writes fields of the room object rooms.get(code) gave it,
\* room being the object after the writes, and broadcasts the snapshot.
Updated(code, room) ==
    /\ heap' = [heap EXCEPT ![refOf(code)] = room]
    /\ out' = <<roomUpdate(code, room)>>
    /\ UNCHANGED <<program, QUESTION_BANK, rooms, pending, open, channels, server>>

(***************************************************************************)
(* host:createRoom (server.js:148-176).  The loop of line 150 ends at the  *)
(* first drawn code that no room holds; codeDraws are the draws of that    *)
(* makeCode call and ddDraws those of the daily-double loop.  When every   *)
(* code makeCode can return (CodeSpace) is held, the loop never ends.      *)
(***************************************************************************)
newRoom(socket, code, hostName, mode) ==
    [code |-> code,
     hostSocketId |-> socket,
     hostName |-> slice(OrElse(hostName, StrHost), 30),
     mode |-> IF mode = "TURNS" THEN "TURNS" ELSE "BUZZER",
     players |-> [id \in {} |-> NULL],
     teams |-> <<[name |-> StrTeam(1), score |-> 0],
                 [name |-> StrTeam(2), score |-> 0],
                 [name |-> StrTeam(3), score |-> 0]>>,
     usedQuestionIds |-> {},
     game |-> NULL,
     active |-> NULL,
     turn |-> [teamIndex |-> Num(0)],
     buzzer |-> [locked |-> FALSE, winner |-> NULL]]

createRoom(socket, hostName, mode, codeDraws, ddDraws) ==
    /\ server = "up"
    /\ socket \in open
    /\ IF \A code \in CodeSpace : has(code)
       THEN /\ server' = "hung"
            /\ out' = <<>>
            /\ UNCHANGED <<program, QUESTION_BANK, rooms, heap, pending, open, channels>>
       ELSE LET code == makeCode(codeDraws) IN
            /\ ~has(code)
            /\ ddLoopEndsAt(ddDraws)
            /\ \E b \in buildGameFromBank({}, ddDraws) :
                 LET room == [newRoom(socket, code, hostName, mode) EXCEPT
                                 !.game = b.game,
                                 !.usedQuestionIds = b.usedQuestionIds]
                 IN  /\ rooms' = set(code, newRef)
                     /\ heap' = collect([n \in DOMAIN heap \cup {newRef} |->
                                            IF n = newRef THEN room ELSE heap[n]],
                                        rooms', pending)
                     /\ channels' = [channels EXCEPT ![socket] = @ \cup {code}]
                     /\ out' = <<roomCreated(socket, code, room)>>
            /\ UNCHANGED <<program, QUESTION_BANK, pending, open, server>>

(***************************************************************************)
(* player:join (server.js:179-192).                                        *)
(***************************************************************************)
join(socket, code, playerName, teamIndex) ==
    /\ server = "up"
    /\ socket \in open
    /\ IF ~has(code)
       THEN /\ out' = <<roomError(socket)>>
            /\ UNCHANGED <<program, QUESTION_BANK, rooms, heap, pending, open, channels, server>>
       ELSE LET room == get(code)
                player == [id |-> socket,
                           name |-> slice(OrElse(trim(playerName), StrPlayer), 25),
                           teamIndex |-> clampTeam(teamIndex)]
                joined == [room EXCEPT !.players =
                              [id \in DOMAIN @ \cup {socket} |->
                                  IF id = socket THEN player ELSE @[id]]]
                chan == [channels EXCEPT ![socket] = @ \cup {code}]
                to == {id \in open : code \in chan[id]}
            IN  /\ channels' = chan
                /\ heap' = [heap EXCEPT ![refOf(code)] = joined]
                /\ out' = <<[roomUpdate(code, joined) EXCEPT !.to = to],
                            playerJoined(socket, code, joined)>>
                /\ UNCHANGED <<program, QUESTION_BANK, rooms, pending, open, server>>

(***************************************************************************)
(* The host check shared by the host handlers:                             *)
(*   if (!room || room.hostSocketId !== socket.id) return;                 *)
(***************************************************************************)
isHostOrGuest(socket, code) == has(code)

isHost(socket, code) == has(code) /\ get(code).hostSocketId = socket

\* An uncaught TypeError in a handler ends the process.
Thrown ==
    /\ server' = "crashed"
    /\ out' = <<>>
    /\ UNCHANGED <<program, QUESTION_BANK, rooms, heap, pending, open, channels>>

\* a[v] for a JavaScript value v used as an array index
isIndex(v, n) == v.finite /\ IsWhole(v.h) /\ v.h \div 2 >= 0 /\ v.h \div 2 < n

\* room.game.categories?.[catIdx]?.clues?.[rowIdx], NULL for undefined
clueAt(game, catIdx, rowIdx) ==
    IF /\ isIndex(catIdx, Len(game.categories))
       /\ isIndex(rowIdx, Len(game.categories[catIdx.h \div 2 + 1].clues))
    THEN game.categories[catIdx.h \div 2 + 1].clues[rowIdx.h \div 2 + 1]
    ELSE NULL

(***************************************************************************)
(* host:pickClue (server.js:195-206).                                      *)
(***************************************************************************)
pickedMarkingUsed(room, catIdx, rowIdx) ==
    [room EXCEPT
        !.active = [catIdx |-> catIdx, rowIdx |-> rowIdx, showing |-> "q"],
        !.buzzer = [locked |-> FALSE, winner |-> NULL],
        !.game.categories[catIdx.h \div 2 + 1].clues[rowIdx.h \div 2 + 1].used = TRUE]

pickedKeepingBuzzer(room, catIdx, rowIdx) ==
    [room EXCEPT !.active = [catIdx |-> catIdx, rowIdx |-> rowIdx, showing |-> "q"]]

\* server.js:202-203
picked(room, catIdx, rowIdx) ==
    [room EXCEPT
        !.active = [catIdx |-> catIdx, rowIdx |-> rowIdx, showing |-> "q"],
        !.buzzer = [locked |-> FALSE, winner |-> NULL]]

pickableWhenUsed(clue) == clue # NULL

\* server.js:200: if (!clue || clue.used) return;
pickable(clue) == clue # NULL /\ ~clue.used

pickClue(socket, code, catIdx, rowIdx) ==
    /\ server = "up"
    /\ socket \in open
    /\ IF ~isHost(socket, code) THEN Ignored
       ELSE LET room == get(code)
                clue == clueAt(room.game, catIdx, rowIdx)
            IN  IF ~pickable(clue) THEN Ignored
                ELSE Updated(code, picked(room, catIdx, rowIdx))

(***************************************************************************)
(* host:showAnswer (server.js:209-216).                                    *)
(***************************************************************************)
showAnswer(socket, code) ==
    /\ server = "up"
    /\ socket \in open
    /\ IF ~isHost(socket, code) THEN Ignored
       ELSE LET room == get(code)
            IN  IF room.active = NULL THEN Ignored
                ELSE Updated(code, [room EXCEPT !.active.showing = "a"])

(***************************************************************************)
(* host:closeClue (server.js:219-230).                                     *)
(***************************************************************************)
closedResettingBuzzer(room, markUsed) ==
    LET marked ==
            IF room.active # NULL /\ markUsed
               /\ clueAt(room.game, room.active.catIdx, room.active.rowIdx) # NULL
            THEN [room EXCEPT
                    !.game.categories[room.active.catIdx.h \div 2 + 1]
                      .clues[room.active.rowIdx.h \div 2 + 1].used = TRUE]
            ELSE room
    IN  [marked EXCEPT !.active = NULL, !.buzzer = [locked |-> FALSE, winner |-> NULL]]

closedKeepingActive(room, markUsed) ==
    IF room.active # NULL /\ markUsed
       /\ clueAt(room.game, room.active.catIdx, room.active.rowIdx) # NULL
    THEN [room EXCEPT
            !.game.categories[room.active.catIdx.h \div 2 + 1]
              .clues[room.active.rowIdx.h \div 2 + 1].used = TRUE]
    ELSE room

\* server.js:223-228
closed(room, markUsed) ==
    LET marked ==
            IF room.active # NULL /\ markUsed
               /\ clueAt(room.game, room.active.catIdx, room.active.rowIdx) # NULL
            THEN [room EXCEPT
                    !.game.categories[room.active.catIdx.h \div 2 + 1]
                      .clues[room.active.rowIdx.h \div 2 + 1].used = TRUE]
            ELSE room
    IN  [marked EXCEPT !.active = NULL]

closeClue(socket, code, markUsed) ==
    /\ server = "up"
    /\ socket \in open
    /\ IF ~isHost(socket, code) THEN Ignored
       ELSE Updated(code, closed(get(code), markUsed))

(***************************************************************************)
(* host:score (server.js:233-241).  room.teams[idx] is undefined for an    *)
(* idx that is no array index, and reading .score of it throws.            *)
(***************************************************************************)
score(socket, code, teamIndex, delta) ==
    /\ server = "up"
    /\ socket \in open
    /\ IF ~isHost(socket, code) THEN Ignored
       ELSE LET room == get(code)
                idx == clampTeam(teamIndex)
            IN  IF ~IsWhole(idx) THEN Thrown
                ELSE /\ room.teams[idx \div 2 + 1].score + delta \in -MaxScore..MaxScore
                     /\ Updated(code,
                            [room EXCEPT !.teams[idx \div 2 + 1].score = @ + delta])

(***************************************************************************)
(* host:renameTeam (server.js:244-252).                                    *)
(***************************************************************************)
renameTeam(socket, code, teamIndex, name) ==
    /\ server = "up"
    /\ socket \in open
    /\ IF ~isHost(socket, code) THEN Ignored
       ELSE LET room == get(code)
                idx == clampTeam(teamIndex)
            IN  IF ~IsWhole(idx) THEN Thrown
                ELSE Updated(code,
                        [room EXCEPT !.teams[idx \div 2 + 1].name =
                            slice(OrElse(name, StrTeam(idx \div 2 + 1)), 20)])

(***************************************************************************)
(* host:setTurn and host:nextTurn (server.js:255-269).                     *)
(***************************************************************************)
setTurn(socket, code, teamIndex) ==
    /\ server = "up"
    /\ socket \in open
    /\ IF ~isHost(socket, code) THEN Ignored
       ELSE Updated(code, [get(code) EXCEPT !.turn.teamIndex = clampTeam(teamIndex)])

nextTeamOfTwo(teamIndex) == (teamIndex + Num(1)) % Num(2)

\* (room.turn.teamIndex + 1) % 3, in fixed point
nextTeam(teamIndex) == (teamIndex + Num(1)) % Num(3)

nextTurn(socket, code) ==
    /\ server = "up"
    /\ socket \in open
    /\ IF ~isHost(socket, code) THEN Ignored
       ELSE Updated(code, [get(code) EXCEPT !.turn.teamIndex = nextTeam(@)])

(***************************************************************************)
(* player:buzz (server.js:272-286).                                        *)
(***************************************************************************)
buzzAcceptedInAnyMode(room, socket) ==
    /\ room.active # NULL
    /\ ~room.buzzer.locked
    /\ socket \in DOMAIN room.players

buzzAcceptedWhileLocked(room, socket) ==
    /\ room.mode = "BUZZER"
    /\ room.active # NULL
    /\ socket \in DOMAIN room.players

\* server.js:275-280: the checks a buzz must pass
buzzAccepted(room, socket) ==
    /\ room.mode = "BUZZER"
    /\ room.active # NULL
    /\ ~room.buzzer.locked
    /\ socket \in DOMAIN room.players

buzzedLeavingOpen(room, player) ==
    [room EXCEPT
        !.buzzer.winner = [name |-> player.name, teamIndex |-> player.teamIndex]]

\* server.js:282-283
buzzed(room, player) ==
    [room EXCEPT
        !.buzzer.locked = TRUE,
        !.buzzer.winner = [name |-> player.name, teamIndex |-> player.teamIndex]]

buzz(socket, code) ==
    /\ server = "up"
    /\ socket \in open
    /\ IF ~has(code) THEN Ignored
       ELSE LET room == get(code)
            IN  IF ~buzzAccepted(room, socket) THEN Ignored
                ELSE Updated(code, buzzed(room, room.players[socket]))

(***************************************************************************)
(* host:unlockBuzzer (server.js:289-295).                                  *)
(***************************************************************************)
unlockKeepingWinner(room) == [room EXCEPT !.buzzer.locked = FALSE]

\* server.js:293
unlock(room) == [room EXCEPT !.buzzer = [locked |-> FALSE, winner |-> NULL]]

unlockBuzzer(socket, code) ==
    /\ server = "up"
    /\ socket \in open
    /\ IF ~isHost(socket, code) THEN Ignored
       ELSE Updated(code, unlock(get(code)))

(***************************************************************************)
(* host:newRound (server.js:298-309).                                      *)
(***************************************************************************)
rebuiltFromTeamOne(room, game, keepScores) ==
    [room EXCEPT
        !.game = game,
        !.active = NULL,
        !.buzzer = [locked |-> FALSE, winner |-> NULL],
        !.turn = [teamIndex |-> Num(0)],
        !.teams = IF keepScores THEN @
                  ELSE [t \in 1..Len(@) |-> [@[t] EXCEPT !.score = 0]]]

rebuiltZeroed(room, game, keepScores) ==
    [room EXCEPT
        !.game = game,
        !.active = NULL,
        !.buzzer = [locked |-> FALSE, winner |-> NULL],
        !.teams = [t \in 1..Len(@) |-> [@[t] EXCEPT !.score = 0]]]

\* server.js:302-306, game being the board built
rebuilt(room, game, keepScores) ==
    [room EXCEPT
        !.game = game,
        !.active = NULL,
        !.buzzer = [locked |-> FALSE, winner |-> NULL],
        !.teams = IF keepScores THEN @
                  ELSE [t \in 1..Len(@) |-> [@[t] EXCEPT !.score = 0]]]

newRound(socket, code, keepScores, ddDraws) ==
    /\ server = "up"
    /\ socket \in open
    /\ IF ~isHost(socket, code) THEN Ignored
       ELSE LET room == get(code)
            IN  /\ ddLoopEndsAt(ddDraws)
                /\ \E b \in buildGameFromBank(room.usedQuestionIds, ddDraws) :
                     Updated(code,
                        [rebuilt(room, b.game, keepScores) EXCEPT
                            !.usedQuestionIds = b.usedQuestionIds])

(***************************************************************************)
(* disconnect (server.js:311-324).  The socket has left its socket.io      *)
(* rooms when the handler runs.  The loop stops at the first room, in the  *)
(* Map's order, that the socket hosts or plays in.                         *)
(***************************************************************************)
endsRoomWhenEmptied(room, socket) ==
    \/ room.hostSocketId = socket
    \/ DOMAIN room.players = {socket}

\* server.js:313: the disconnect that ends the room
endsRoom(room, socket) == room.hostSocketId = socket

disconnect(socket) ==
    /\ server = "up"
    /\ socket \in open
    /\ open' = open \ {socket}
    /\ channels' = [channels EXCEPT ![socket] = {}]
    /\ LET hit == {i \in 1..Len(rooms) :
                      \/ live[i].hostSocketId = socket
                      \/ socket \in DOMAIN live[i].players}
           to(code) == {id \in open \ {socket} : code \in channels[id]}
       IN  IF hit = {}
           THEN /\ out' = <<>>
                /\ UNCHANGED <<rooms, heap>>
           ELSE LET i == CHOOSE j \in hit : \A k \in hit : j <= k
                    code == rooms[i].code
                    room == live[i]
                IN  IF endsRoom(room, socket)
                    THEN /\ out' = <<[roomEnded(code) EXCEPT !.to = to(code)]>>
                         /\ rooms' = delete(code)
                         /\ heap' = collect(heap, rooms', pending)
                    ELSE LET left == [room EXCEPT !.players =
                                         [id \in DOMAIN @ \ {socket} |-> @[id]]]
                         IN  /\ heap' = [heap EXCEPT ![rooms[i].ref] = left]
                             /\ out' = <<[roomUpdate(code, left) EXCEPT !.to = to(code)]>>
                             /\ UNCHANGED rooms
    /\ UNCHANGED <<program, QUESTION_BANK, pending, server>>

(***************************************************************************)
(* The OpenTDB server (src/unnamed/part_002).  Its handlers are those of   *)
(* server.js except player:join, host:createRoom and host:newRound; the    *)
(* last two await buildGameFromOpenTDB, and other handlers run while they  *)
(* are suspended.                                                          *)
(*                                                                         *)
(* fetch[k, n] is what the n-th fetchOneQuestion call for cell k does      *)
(* (part_002:88-109): "ok" a question, "none" null, "token" a token        *)
(* problem, "throw" an exception.  Cell 30 is the final question.  The     *)
(* token itself (part_002:35-56) only changes the URL fetched.             *)
(***************************************************************************)
OPENTDB_CATEGORIES == <<"Math", "Science", "Sports", "Pop Culture", "Family Trivia", "Geography">>

\* part_002:111-120
fallbackClue(catName, value, diff) ==
    [value |-> value,
     q |-> "[" \o catName \o "] (" \o diff \o ") - Question unavailable (try New Round)",
     a |-> "No answer (API unavailable)",
     used |-> FALSE,
     dd |-> FALSE]

\* part_002:136-166: one clue.  A token problem is retried once.
tdbClue(fetch, k, catName, value, diff) ==
    LET first == fetch[k, 1]
        result == IF first = "token" THEN fetch[k, 2] ELSE first
    IN  IF first = "throw" \/ result = "throw" THEN fallbackClue(catName, value, diff)
        ELSE IF result = "none" \/ result = "token" THEN fallbackClue(catName, value, diff)
        ELSE [value |-> value, q |-> "Q", a |-> "A", used |-> FALSE, dd |-> FALSE]

\* part_002:187-202
tdbFinal(fetch) ==
    LET k == Len(OPENTDB_CATEGORIES) * Len(VALUE_ROWS)
        first == fetch[k, 1]
        res == IF first = "token" THEN fetch[k, 2] ELSE first
    IN  IF first # "throw" /\ res = "ok"
        THEN [category |-> "Final Jeopardy", q |-> "Q", a |-> "A"]
        ELSE [category |-> "Final Jeopardy",
              q |-> "Final Jeopardy question unavailable (try New Round)",
              a |-> "No answer"]

\* buildGameFromOpenTDB (part_002:122-209)
buildGameFromOpenTDB(fetch, draws) ==
    [title |-> "Jeopardy Live",
     categories |->
        markDailyDoubles(
            [c \in 1..Len(OPENTDB_CATEGORIES) |->
                [name |-> OPENTDB_CATEGORIES[c],
                 clues |-> [i \in 1..Len(VALUE_ROWS) |->
                              tdbClue(fetch, (c - 1) * Len(VALUE_ROWS) + (i - 1),
                                      OPENTDB_CATEGORIES[c], VALUE_ROWS[i], DIFF_BY_ROW[i])]]],
            ddLoop(draws, {})),
     final |-> tdbFinal(fetch)]

(***************************************************************************)
(* host:createRoom (part_002:231-256) up to its await: the code is chosen  *)
(* and checked against the Map now; the room is registered only when the   *)
(* build has resolved.                                                     *)
(***************************************************************************)
tdbCreateRoom(socket, hostName, mode, codeDraws) ==
    /\ server = "up"
    /\ socket \in open
    /\ IF \A code \in CodeSpace : has(code)
       THEN /\ server' = "hung"
            /\ out' = <<>>
            /\ UNCHANGED <<program, QUESTION_BANK, rooms, heap, pending, open, channels>>
       ELSE LET code == makeCode(codeDraws)
                p == [kind |-> "createRoom", socket |-> socket, code |-> code,
                      hostName |-> slice(OrElse(hostName, StrHost), 30),
                      mode |-> IF mode = "TURNS" THEN "TURNS" ELSE "BUZZER",
                      ref |-> 0]
            IN  /\ ~has(code)
                /\ p \notin pending
                /\ Cardinality(pending) < MaxPending
                /\ pending' = pending \cup {p}
                /\ out' = <<>>
                /\ UNCHANGED <<program, QUESTION_BANK, rooms, heap, open, channels, server>>

\* host:createRoom after its await (part_002:246-255).  A socket that has
\* disconnected joins nothing and is sent nothing.
tdbCreateRoomDone(p, fetch, ddDraws) ==
    /\ server = "up"
    /\ p \in pending
    /\ p.kind = "createRoom"
    /\ ddLoopEndsAt(ddDraws)
    /\ LET room == [code |-> p.code,
                    hostSocketId |-> p.socket,
                    hostName |-> p.hostName,
                    mode |-> p.mode,
                    players |-> [id \in {} |-> NULL],
                    teams |-> <<[name |-> StrTeam(1), score |-> 0],
                                [name |-> StrTeam(2), score |-> 0],
                                [name |-> StrTeam(3), score |-> 0]>>,
                    game |-> buildGameFromOpenTDB(fetch, ddDraws),
                    active |-> NULL,
                    turn |-> [teamIndex |-> Num(0)],
                    buzzer |-> [locked |-> FALSE, winner |-> NULL]]
       IN  /\ pending' = pending \ {p}
           /\ rooms' = set(p.code, newRef)
           /\ heap' = collect([n \in DOMAIN heap \cup {newRef} |->
                                  IF n = newRef THEN room ELSE heap[n]],
                              rooms', pending')
           /\ channels' = IF p.socket \in open
                          THEN [channels EXCEPT ![p.socket] = @ \cup {p.code}]
                          ELSE channels
           /\ out' = <<[roomCreated(p.socket, p.code, room) EXCEPT
                          !.to = {p.socket} \cap open]>>
    /\ UNCHANGED <<program, QUESTION_BANK, open, server>>

(***************************************************************************)
(* player:join (part_002:259-271): the player entry has no id.             *)
(***************************************************************************)
tdbJoin(socket, code, playerName, teamIndex) ==
    /\ server = "up"
    /\ socket \in open
    /\ IF ~has(code)
       THEN /\ out' = <<roomError(socket)>>
            /\ UNCHANGED <<program, QUESTION_BANK, rooms, heap, pending, open, channels, server>>
       ELSE LET room == get(code)
                player == [name |-> slice(OrElse(trim(playerName), StrPlayer), 25),
                           teamIndex |-> clampTeam(teamIndex)]
                joined == [room EXCEPT !.players =
                              [id \in DOMAIN @ \cup {socket} |->
                                  IF id = socket THEN player ELSE @[id]]]
                chan == [channels EXCEPT ![socket] = @ \cup {code}]
                to == {id \in open : code \in chan[id]}
            IN  /\ channels' = chan
                /\ heap' = [heap EXCEPT ![refOf(code)] = joined]
                /\ out' = <<[roomUpdate(code, joined) EXCEPT !.to = to],
                            playerJoined(socket, code, joined)>>
                /\ UNCHANGED <<program, QUESTION_BANK, rooms, pending, open, server>>

(***************************************************************************)
(* host:newRound (part_002:378-391) up to its await: the handler keeps the *)
(* room object it looked up.                                               *)
(***************************************************************************)
tdbNewRound(socket, code, keepScores) ==
    /\ server = "up"
    /\ socket \in open
    /\ IF ~isHost(socket, code) THEN Ignored
       ELSE LET p == [kind |-> "newRound", socket |-> socket, code |-> code,
                      keepScores |-> keepScores, ref |-> refOf(code)]
            IN  /\ p \notin pending
                /\ Cardinality(pending) < MaxPending
                /\ pending' = pending \cup {p}
                /\ out' = <<>>
                /\ UNCHANGED <<program, QUESTION_BANK, rooms, heap, open, channels, server>>

\* host:newRound after its await (part_002:382-390): it writes the object it
\* holds, whether or not the Map still has it, and broadcasts to the code.
tdbNewRoundDone(p, fetch, ddDraws) ==
    /\ server = "up"
    /\ p \in pending
    /\ p.kind = "newRound"
    /\ ddLoopEndsAt(ddDraws)
    /\ LET room == rebuilt(heap[p.ref], buildGameFromOpenTDB(fetch, ddDraws), p.keepScores)
       IN  /\ pending' = pending \ {p}
           /\ heap' = collect([heap EXCEPT ![p.ref] = room], rooms, pending')
           /\ out' = <<roomUpdate(p.code, room)>>
    /\ UNCHANGED <<program, QUESTION_BANK, rooms, open, channels, server>>

(***************************************************************************)
(* The inputs explored.  A specification draws the requests it explores    *)
(* from an inputs record: who sends what, with which arguments.            *)
(***************************************************************************)
SeqsUpTo(S, n) == UNION {[1..k -> S] : k \in 0..n}

\* a bank with questions for some pools and none for the others
SmallBank ==
    {[id |-> 1, category |-> "Math", difficulty |-> "easy", question |-> "Q1", answer |-> "A1"],
     [id |-> 2, category |-> "Math", difficulty |-> "medium", question |-> "Q2", answer |-> "A2"],
     [id |-> 3, category |-> "Family Trivia", difficulty |-> "hard", question |-> "Q3", answer |-> "A3"]}

CodeA == makeCode(<<0, 0, 0, 0, 0>>)
CodeL == makeCode(<<10, 31, 0, 23, 24>>)
\* a code no room ever has, for requests naming a room that does not exist
NoSuchCode == <<"Z", "Z", "Z", "Z", "Z">>

\* requests
Join(socket, playerName, teamIndex) ==
    [socket |-> socket, playerName |-> playerName, teamIndex |-> teamIndex]
Pick(catIdx, rowIdx) == [catIdx |-> catIdx, rowIdx |-> rowIdx]
Score(teamIndex, delta) == [teamIndex |-> teamIndex, delta |-> delta]
Rename(teamIndex, name) == [teamIndex |-> teamIndex, name |-> name]
StrAl == <<"A", "l">>
StrBo == <<"B", "o">>
StrRed == <<"R", "e", "d">>

DdDrawsOver(values) == {d \in SeqsUpTo(values, MaxDraws) : ddLoopEndsAt(d)}

\* The server has started and MaxSockets clients have connected.  part_002
\* has no question bank.
InitOf(file, bank) ==
    /\ program = file
    /\ QUESTION_BANK = bank
    /\ rooms = <<>>
    /\ heap = <<>>
    /\ pending = {}
    /\ open = SocketIds
    /\ channels = [id \in SocketIds |-> {}]
    /\ out = <<>>
    /\ server = "up"

Init == InitOf("server.js", SmallBank)

NextOn(in) ==
    \/ \E socket \in in.creators, hostName \in in.hostNames, mode \in in.modes,
          codeDraws \in in.codeDraws, ddDraws \in in.ddDraws :
            createRoom(socket, hostName, mode, codeDraws, ddDraws)
    \/ \E socket \in in.leavers : disconnect(socket)
    \/ \E j \in in.joins, code \in in.codes :
            join(j.socket, code, j.playerName, j.teamIndex)
    \/ \E socket \in in.buzzers, code \in in.codes : buzz(socket, code)
    \/ \E socket \in in.hosts, code \in in.codes :
        \/ \E pick \in in.picks : pickClue(socket, code, pick.catIdx, pick.rowIdx)
        \/ showAnswer(socket, code)
        \/ \E markUsed \in in.markUsed : closeClue(socket, code, markUsed)
        \/ \E sc \in in.scores : score(socket, code, sc.teamIndex, sc.delta)
        \/ \E rn \in in.renames : renameTeam(socket, code, rn.teamIndex, rn.name)
        \/ \E teamIndex \in in.turnTeams : setTurn(socket, code, teamIndex)
        \/ nextTurn(socket, code)
        \/ unlockBuzzer(socket, code)
        \/ \E keepScores \in in.keepScores, ddDraws \in in.roundDraws :
                newRound(socket, code, keepScores, ddDraws)

(***************************************************************************)
(* Spec: one game.  Socket 1 creates the room; sockets 2 and 3 join it;    *)
(* the host requests come from the host and from the player on socket 2.   *)
(***************************************************************************)
GameInputs ==
    [creators |-> {1},
     leavers |-> {1, 3},
     joins |-> {Join(2, StrAl, JsNum(Num(1))),
                Join(3, <<" ", "B", "o">>, JsNum(Num(5)))},
     buzzers |-> {2, 3},
     hosts |-> {1, 2},
     codes |-> {CodeA},
     hostNames |-> {<<>>},
     modes |-> {"BUZZER"},
     codeDraws |-> {<<0, 0, 0, 0, 0>>},
     ddDraws |-> {<<3, 7, 7, 29>>},
     roundDraws |-> {<<8, 29>>},
     picks |-> {Pick(JsNum(Num(0)), JsNum(Num(1))),
                Pick(JsNum(Num(5)), JsNum(Num(4))),
                Pick(JsNum(Num(6)), JsNum(Num(1)))},
     markUsed |-> BOOLEAN,
     scores |-> {Score(JsNum(Num(1)), 100)},
     renames |-> {Rename(JsNum(Num(5)), StrRed)},
     turnTeams |-> {JsNum(Num(1))},
     keepScores |-> BOOLEAN]

Next == NextOn(GameInputs)

Spec == Init /\ [][Next]_vars

(***************************************************************************)
(* The same server over several rounds: rooms of both modes, scores up and *)
(* down, turns, and new rounds whose daily doubles fall elsewhere.         *)
(***************************************************************************)
RoundInputs ==
    [creators |-> {1},
     leavers |-> {1, 2},
     joins |-> {Join(2, StrAl, JsNum(Num(1)))},
     buzzers |-> {2},
     hosts |-> {1},
     codes |-> {CodeA},
     hostNames |-> {<<>>},
     modes |-> {"TURNS", "BUZZER"},
     codeDraws |-> {<<0, 0, 0, 0, 0>>},
     ddDraws |-> {<<3, 7, 7, 29>>},
     roundDraws |-> {<<8, 29>>},
     picks |-> {Pick(JsNum(Num(0)), JsNum(Num(1)))},
     markUsed |-> {TRUE},
     scores |-> {Score(JsNum(Num(1)), 100), Score(JsNum(Num(1)), -100)},
     renames |-> {Rename(JsNum(Num(5)), StrRed)},
     turnTeams |-> {JsNum(Num(1))},
     keepScores |-> BOOLEAN]

NextRounds == NextOn(RoundInputs)

SpecRounds == Init /\ [][NextRounds]_vars

(***************************************************************************)
(* SpecIndexes: the same server with team indexes of every kind in the     *)
(* requests: 1.5 (the integer 3 in fixed point), NaN for a value that is   *)
(* no number, -1 and 7.                                                    *)
(***************************************************************************)
IndexInputs ==
    [creators |-> {1},
     leavers |-> {1, 2},
     joins |-> {Join(2, StrAl, JsNum(3)),
                Join(2, StrAl, JsNum(Num(-1))),
                Join(3, StrBo, JsNaN)},
     buzzers |-> {2, 3},
     hosts |-> {1},
     codes |-> {CodeA},
     hostNames |-> {<<>>},
     modes |-> {"BUZZER"},
     codeDraws |-> {<<0, 0, 0, 0, 0>>},
     ddDraws |-> {<<3, 7, 7, 29>>},
     roundDraws |-> {<<3, 7, 7, 29>>},
     picks |-> {Pick(JsNum(Num(0)), JsNum(Num(1)))},
     markUsed |-> {TRUE},
     scores |-> {Score(JsNum(3), 100), Score(JsNum(Num(7)), 100)},
     renames |-> {Rename(JsNaN, StrRed)},
     turnTeams |-> {JsNum(3), JsNum(Num(7))},
     keepScores |-> {TRUE}]

NextIndexes == NextOn(IndexInputs)

SpecIndexes == Init /\ [][NextIndexes]_vars

(***************************************************************************)
(* SpecLobby: the same server with sockets that come and go.  Sockets 1    *)
(* and 2 both create rooms, under either code of CodeSpace, and join       *)
(* rooms, their own included; requests also name a code that no room has.  *)
(***************************************************************************)
LobbyInputs ==
    [creators |-> {1, 2},
     leavers |-> {1, 2},
     joins |-> {Join(1, StrAl, JsNum(Num(1))), Join(2, StrBo, JsNum(Num(2)))},
     joinCodes |-> {CodeA, CodeL, NoSuchCode},
     buzzers |-> {2},
     hosts |-> {1},
     codes |-> {CodeA, NoSuchCode},
     hostNames |-> {<<>>},
     modes |-> {"BUZZER"},
     codeDraws |-> CodeDraws,
     ddDraws |-> {<<3, 7, 7, 29>>},
     roundDraws |-> {<<3, 7, 7, 29>>},
     picks |-> {Pick(JsNum(Num(0)), JsNum(Num(1)))},
     markUsed |-> {TRUE},
     scores |-> {Score(JsNum(Num(1)), 0)},
     renames |-> {Rename(JsNum(Num(2)), StrTeam(3))},
     turnTeams |-> {JsNum(Num(0))},
     keepScores |-> {TRUE}]

NextLobby ==
    \/ \E socket \in LobbyInputs.creators, hostName \in LobbyInputs.hostNames,
          mode \in LobbyInputs.modes, codeDraws \in LobbyInputs.codeDraws,
          ddDraws \in LobbyInputs.ddDraws :
            createRoom(socket, hostName, mode, codeDraws, ddDraws)
    \/ \E socket \in LobbyInputs.leavers : disconnect(socket)
    \/ \E j \in LobbyInputs.joins, code \in LobbyInputs.joinCodes :
            join(j.socket, code, j.playerName, j.teamIndex)
    \/ \E socket \in LobbyInputs.buzzers, code \in LobbyInputs.codes : buzz(socket, code)
    \/ \E socket \in LobbyInputs.hosts, code \in LobbyInputs.codes :
        \/ \E pick \in LobbyInputs.picks : pickClue(socket, code, pick.catIdx, pick.rowIdx)
        \/ showAnswer(socket, code)
        \/ \E markUsed \in LobbyInputs.markUsed : closeClue(socket, code, markUsed)
        \/ \E sc \in LobbyInputs.scores : score(socket, code, sc.teamIndex, sc.delta)
        \/ \E rn \in LobbyInputs.renames : renameTeam(socket, code, rn.teamIndex, rn.name)
        \/ \E teamIndex \in LobbyInputs.turnTeams : setTurn(socket, code, teamIndex)
        \/ nextTurn(socket, code)
        \/ unlockBuzzer(socket, code)
        \/ \E keepScores \in LobbyInputs.keepScores, ddDraws \in LobbyInputs.roundDraws :
                newRound(socket, code, keepScores, ddDraws)

SpecLobby == Init /\ [][NextLobby]_vars

(***************************************************************************)
(* SpecPlay: one room of either mode in which the host also joins as a     *)
(* player, a player joins again under another name and team, everybody     *)
(* buzzes, and the host picks cells on and off the board.                  *)
(***************************************************************************)
PlayInputs ==
    [creators |-> {1},
     leavers |-> {2},
     joins |-> {Join(1, StrAl, JsNum(Num(0))), Join(2, StrBo, JsNum(Num(1))),
                Join(2, StrAl, JsNum(Num(2)))},
     buzzers |-> {1, 2, 3},
     hosts |-> {1},
     codes |-> {CodeA},
     hostNames |-> {<<>>},
     modes |-> {"BUZZER", "TURNS"},
     codeDraws |-> {<<0, 0, 0, 0, 0>>},
     ddDraws |-> {<<3, 7, 7, 29>>},
     roundDraws |-> {<<3, 7, 7, 29>>},
     picks |-> {Pick(JsNum(Num(0)), JsNum(Num(1))), Pick(JsNum(Num(1)), JsNum(Num(0))),
                Pick(JsNum(Num(6)), JsNum(Num(1))), Pick(JsNum(Num(0)), JsNum(Num(5))),
                Pick(JsNum(Num(-1)), JsNum(Num(0))), Pick(JsNaN, JsNum(Num(1))),
                Pick(JsNum(Num(0)), JsNum(3))},
     markUsed |-> BOOLEAN,
     scores |-> {Score(JsNum(Num(1)), 0)},
     renames |-> {Rename(JsNum(Num(2)), StrTeam(3))},
     turnTeams |-> {JsNum(Num(0))},
     keepScores |-> {TRUE}]

NextPlay == NextOn(PlayInputs)

SpecPlay == Init /\ [][NextPlay]_vars

(***************************************************************************)
(* SpecTeams: one room whose host renames teams with names that are        *)
(* empty, blank, padded with blanks or longer than the cap, and scores up  *)
(* and down.                                                               *)
(***************************************************************************)
StrBlank == <<" ", " ">>
StrPadded == <<" ", "R", "e", "d", " ">>
StrLong == [i \in 1..21 |-> "x"]

TeamInputs ==
    [creators |-> {1},
     leavers |-> {2},
     joins |-> {Join(2, StrAl, JsNum(Num(1)))},
     buzzers |-> {2},
     hosts |-> {1},
     codes |-> {CodeA},
     hostNames |-> {<<>>},
     modes |-> {"BUZZER"},
     codeDraws |-> {<<0, 0, 0, 0, 0>>},
     ddDraws |-> {<<3, 7, 7, 29>>},
     roundDraws |-> {<<3, 7, 7, 29>>},
     picks |-> {Pick(JsNum(Num(0)), JsNum(Num(1)))},
     markUsed |-> {FALSE},
     scores |-> {Score(JsNum(Num(1)), 100), Score(JsNum(Num(1)), -100),
                 Score(JsNum(Num(0)), 0)},
     renames |-> {Rename(JsNum(Num(0)), StrRed), Rename(JsNum(Num(0)), <<>>),
                  Rename(JsNum(Num(1)), StrBlank), Rename(JsNum(Num(1)), StrPadded),
                  Rename(JsNum(Num(7)), StrLong)},
     turnTeams |-> {JsNum(Num(0))},
     keepScores |-> {TRUE}]

NextTeams == NextOn(TeamInputs)

SpecTeams == Init /\ [][NextTeams]_vars

(***************************************************************************)
(* SpecReuse: a room whose host leaves while a player stays connected,     *)
(* and a second host whose new room draws the same code.                   *)
(***************************************************************************)
ReuseInputs ==
    [creators |-> {1, 3},
     leavers |-> {1},
     joins |-> {Join(2, StrAl, JsNum(Num(1)))},
     buzzers |-> {2},
     hosts |-> {1, 3},
     codes |-> {CodeA},
     hostNames |-> {<<>>},
     modes |-> {"BUZZER"},
     codeDraws |-> {<<0, 0, 0, 0, 0>>},
     ddDraws |-> {<<3, 7, 7, 29>>},
     roundDraws |-> {<<3, 7, 7, 29>>},
     picks |-> {Pick(JsNum(Num(0)), JsNum(Num(1)))},
     markUsed |-> {TRUE},
     scores |-> {Score(JsNum(Num(1)), 0)},
     renames |-> {Rename(JsNum(Num(2)), StrTeam(3))},
     turnTeams |-> {JsNum(Num(0))},
     keepScores |-> {TRUE}]

NextReuse == NextOn(ReuseInputs)

SpecReuse == Init /\ [][NextReuse]_vars

(***************************************************************************)
(* SpecTdb: the OpenTDB server.  Sockets 1 and 2 create rooms, socket 3    *)
(* joins and buzzes, and the host requests come from socket 1.             *)
(***************************************************************************)
Responses == {"ok", "none", "token", "throw"}
FetchCells == 0..(Len(OPENTDB_CATEGORIES) * Len(VALUE_ROWS))
\* the provider answers every call the same way
FetchAll(r) == [k \in FetchCells, n \in 1..2 |-> r]
\* the token has expired: the first call of a cell fails, the retry answers r
FetchStale(r) == [k \in FetchCells, n \in 1..2 |-> IF n = 1 THEN "token" ELSE r]
\* a provider that answers cell by cell in turn
FetchMixed ==
    [k \in FetchCells, n \in 1..2 |->
        CASE k % 4 = 0 -> "ok"
          [] k % 4 = 1 -> "throw"
          [] k % 4 = 2 -> IF n = 1 THEN "token" ELSE "ok"
          [] OTHER -> "none"]

NextTdbOn(in) ==
    \/ \E socket \in in.creators, hostName \in in.hostNames, mode \in in.modes,
          codeDraws \in in.codeDraws :
            tdbCreateRoom(socket, hostName, mode, codeDraws)
    \/ \E p \in pending, fetch \in in.fetches, ddDraws \in in.ddDraws :
            tdbCreateRoomDone(p, fetch, ddDraws)
    \/ \E p \in pending, fetch \in in.fetches, ddDraws \in in.roundDraws :
            tdbNewRoundDone(p, fetch, ddDraws)
    \/ \E socket \in in.leavers : disconnect(socket)
    \/ \E j \in in.joins, code \in in.codes :
            tdbJoin(j.socket, code, j.playerName, j.teamIndex)
    \/ \E socket \in in.buzzers, code \in in.codes : buzz(socket, code)
    \/ \E socket \in in.hosts, code \in in.codes :
        \/ \E pick \in in.picks : pickClue(socket, code, pick.catIdx, pick.rowIdx)
        \/ showAnswer(socket, code)
        \/ \E markUsed \in in.markUsed : closeClue(socket, code, markUsed)
        \/ \E sc \in in.scores : score(socket, code, sc.teamIndex, sc.delta)
        \/ \E rn \in in.renames : renameTeam(socket, code, rn.teamIndex, rn.name)
        \/ \E teamIndex \in in.turnTeams : setTurn(socket, code, teamIndex)
        \/ nextTurn(socket, code)
        \/ unlockBuzzer(socket, code)
        \/ \E keepScores \in in.keepScores : tdbNewRound(socket, code, keepScores)

TdbInputs ==
    [creators |-> {1, 2},
     leavers |-> {1, 3},
     joins |-> {Join(3, StrAl, JsNum(Num(1)))},
     buzzers |-> {3},
     hosts |-> {1},
     codes |-> {CodeA},
     hostNames |-> {<<>>},
     modes |-> {"BUZZER"},
     codeDraws |-> {<<0, 0, 0, 0, 0>>},
     ddDraws |-> {<<3, 7, 7, 29>>},
     roundDraws |-> {<<3, 7, 7, 29>>},
     fetches |-> {FetchAll("ok"), FetchMixed},
     picks |-> {Pick(JsNum(Num(0)), JsNum(Num(1)))},
     markUsed |-> {TRUE},
     scores |-> {Score(JsNum(Num(1)), 100)},
     renames |-> {Rename(JsNum(Num(5)), StrRed)},
     turnTeams |-> {JsNum(Num(1))},
     keepScores |-> BOOLEAN]

NextTdb == NextTdbOn(TdbInputs)

InitTdb == InitOf("part_002", {})

SpecTdb == InitTdb /\ [][NextTdb]_vars

(***************************************************************************)
(* SpecBoards: boards of either server.  The daily-double draws range over *)
(* first-row positions (rejected), the first and the last position that    *)
(* count, and repeats; the bank has one question for a pool, two, or none  *)
(* (the file failed to load); the provider answers, fails, or asks for a   *)
(* new token.                                                              *)
(***************************************************************************)
PairBank ==
    {[id |-> 1, category |-> "Math", difficulty |-> "easy", question |-> "Q1", answer |-> "A1"],
     [id |-> 2, category |-> "Math", difficulty |-> "easy", question |-> "Q2", answer |-> "A2"]}

WideDraws == DdDrawsOver({5, 6, 29}) \cup {<<0, 17, 29>>, <<17, 6>>}

BoardInputs ==
    [creators |-> {1},
     leavers |-> {1},
     joins |-> {Join(2, StrAl, JsNum(Num(1)))},
     buzzers |-> {2},
     hosts |-> {1},
     codes |-> {CodeA},
     hostNames |-> {<<>>},
     modes |-> {"BUZZER"},
     codeDraws |-> {<<0, 0, 0, 0, 0>>},
     ddDraws |-> WideDraws,
     roundDraws |-> WideDraws,
     fetches |-> {FetchAll("ok"), FetchAll("none"), FetchStale("token"), FetchMixed},
     picks |-> {Pick(JsNum(Num(5)), JsNum(Num(4)))},
     markUsed |-> {TRUE},
     scores |-> {Score(JsNum(Num(1)), 0)},
     renames |-> {Rename(JsNum(Num(2)), StrTeam(3))},
     turnTeams |-> {JsNum(Num(0))},
     keepScores |-> {TRUE}]

InitBoards ==
    \/ \E bank \in {SmallBank, PairBank, {}} : InitOf("server.js", bank)
    \/ InitOf("part_002", {})

\* the handlers of the server that runs, on BoardInputs
NextBoards ==
    \/ \E socket \in BoardInputs.creators, hostName \in BoardInputs.hostNames,
          mode \in BoardInputs.modes, codeDraws \in BoardInputs.codeDraws,
          ddDraws \in BoardInputs.ddDraws :
            /\ program = "server.js"
            /\ createRoom(socket, hostName, mode, codeDraws, ddDraws)
    \/ \E socket \in BoardInputs.creators, hostName \in BoardInputs.hostNames,
          mode \in BoardInputs.modes, codeDraws \in BoardInputs.codeDraws :
            /\ program = "part_002"
            /\ tdbCreateRoom(socket, hostName, mode, codeDraws)
    \/ \E p \in pending, fetch \in BoardInputs.fetches, ddDraws \in BoardInputs.ddDraws :
            tdbCreateRoomDone(p, fetch, ddDraws)
    \/ \E p \in pending, fetch \in BoardInputs.fetches, ddDraws \in BoardInputs.roundDraws :
            tdbNewRoundDone(p, fetch, ddDraws)
    \/ \E socket \in BoardInputs.leavers : disconnect(socket)
    \/ \E j \in BoardInputs.joins, code \in BoardInputs.codes :
            /\ program = "server.js"
            /\ join(j.socket, code, j.playerName, j.teamIndex)
    \/ \E j \in BoardInputs.joins, code \in BoardInputs.codes :
            /\ program = "part_002"
            /\ tdbJoin(j.socket, code, j.playerName, j.teamIndex)
    \/ \E socket \in BoardInputs.buzzers, code \in BoardInputs.codes : buzz(socket, code)
    \/ \E socket \in BoardInputs.hosts, code \in BoardInputs.codes :
        \/ \E pick \in BoardInputs.picks : pickClue(socket, code, pick.catIdx, pick.rowIdx)
        \/ showAnswer(socket, code)
        \/ \E markUsed \in BoardInputs.markUsed : closeClue(socket, code, markUsed)
        \/ \E sc \in BoardInputs.scores : score(socket, code, sc.teamIndex, sc.delta)
        \/ \E rn \in BoardInputs.renames : renameTeam(socket, code, rn.teamIndex, rn.name)
        \/ \E teamIndex \in BoardInputs.turnTeams : setTurn(socket, code, teamIndex)
        \/ nextTurn(socket, code)
        \/ unlockBuzzer(socket, code)
        \/ \E keepScores \in BoardInputs.keepScores, ddDraws \in BoardInputs.roundDraws :
                /\ program = "server.js"
                /\ newRound(socket, code, keepScores, ddDraws)
        \/ \E keepScores \in BoardInputs.keepScores :
                /\ program = "part_002"
                /\ tdbNewRound(socket, code, keepScores)

SpecBoards == InitBoards /\ [][NextBoards]_vars

(***************************************************************************)
(* Properties of the local-bank server (server.js), checked under Spec.    *)
(***************************************************************************)
Unlocked == [locked |-> FALSE, winner |-> NULL]
cell(room, catIdx, rowIdx) == room.game.categories[catIdx + 1].clues[rowIdx + 1]
Cells == (0..(Len(CATEGORIES) - 1)) \X (0..(Len(VALUE_ROWS) - 1))
usedCells(room) == {k \in Cells : cell(room, k[1], k[2]).used}
activeCell(room) == <<room.active.catIdx.h \div 2, room.active.rowIdx.h \div 2>>
LastWasUpdateOf(room) == out = <<roomUpdate(room.code, room)>>

\* C1: in a BUZZER room with a clue picked, a buzz of a registered player
\* that finds the buzzer unlocked locks it with that player's name and
\* teamIndex as the winner; a buzz that finds it locked leaves the room
\* and the registry as they were and emits nothing.  So among the buzzes
\* between two of pickClue / unlockBuzzer / newRound only the first one
\* processed sets the winner.
C1_FirstBuzzWins ==
    [][\A socket \in SocketIds, code \in CodeSpace :
        ( /\ has(code)
          /\ get(code).mode = "BUZZER"
          /\ get(code).active # NULL
          /\ socket \in DOMAIN get(code).players
          /\ buzz(socket, code) )
        => LET room == get(code)
               player == room.players[socket]
           IN  IF room.buzzer.locked
               THEN /\ UNCHANGED <<rooms, heap>>
                    /\ room.buzzer.winner # NULL
                    /\ out' = <<>>
               ELSE /\ UNCHANGED rooms
                    /\ heap' = [heap EXCEPT ![refOf(code)].buzzer =
                                  [locked |-> TRUE,
                                   winner |-> [name |-> player.name,
                                               teamIndex |-> player.teamIndex]]]
    ]_vars

\* Two players are registered, the one who joined as " Bo" on team 5 holds
\* the buzzer, and the last request (a later buzz among them) was ignored.
C1_Witness ==
    \E i \in 1..Len(rooms) :
        LET room == live[i]
        IN  /\ room.mode = "BUZZER"
            /\ room.active # NULL
            /\ {2, 3} \subseteq DOMAIN room.players
            /\ room.players[2].name = StrAl
            /\ room.buzzer = [locked |-> TRUE,
                              winner |-> [name |-> StrBo, teamIndex |-> Num(2)]]
            /\ out = <<>>

\* C2: every pickClue of the host that names an unused clue of the board
\* leaves buzzer = {locked: false, winner: null} and active = {catIdx,
\* rowIdx, showing: "q"}, whatever the buzzer was before.
C2_PickResetsBuzzer ==
    [][\A socket \in SocketIds, code \in CodeSpace, pick \in GameInputs.picks :
        ( /\ isHost(socket, code)
          /\ clueAt(get(code).game, pick.catIdx, pick.rowIdx) # NULL
          /\ ~clueAt(get(code).game, pick.catIdx, pick.rowIdx).used
          /\ pickClue(socket, code, pick.catIdx, pick.rowIdx) )
        => /\ get(code)'.buzzer = Unlocked
           /\ get(code)'.active = [catIdx |-> pick.catIdx, rowIdx |-> pick.rowIdx,
                                   showing |-> "q"]
           /\ out' = <<roomUpdate(code, get(code)')>>
    ]_vars

\* A second clue is picked after a first one was played and closed as
\* used: the question shows and the buzzer is open again.
C2_Witness ==
    \E i \in 1..Len(rooms) :
        LET room == live[i]
        IN  /\ room.mode = "BUZZER"
            /\ usedCells(room) = {<<0, 1>>}
            /\ room.active = [catIdx |-> JsNum(Num(5)), rowIdx |-> JsNum(Num(4)),
                              showing |-> "q"]
            /\ room.buzzer = Unlocked
            /\ room.players # <<>>
            /\ LastWasUpdateOf(room)

\* the host-only requests of the explored inputs
HostRequest(socket, code) ==
    \/ \E pick \in GameInputs.picks : pickClue(socket, code, pick.catIdx, pick.rowIdx)
    \/ showAnswer(socket, code)
    \/ \E markUsed \in BOOLEAN : closeClue(socket, code, markUsed)
    \/ \E sc \in GameInputs.scores : score(socket, code, sc.teamIndex, sc.delta)
    \/ \E rn \in GameInputs.renames : renameTeam(socket, code, rn.teamIndex, rn.name)
    \/ \E teamIndex \in GameInputs.turnTeams : setTurn(socket, code, teamIndex)
    \/ nextTurn(socket, code)
    \/ unlockBuzzer(socket, code)
    \/ \E keepScores \in BOOLEAN, ddDraws \in GameInputs.roundDraws :
            newRound(socket, code, keepScores, ddDraws)

\* C3: a host-only request on an existing room from a socket that is not
\* the room's hostSocketId, a registered player included, leaves every
\* room and the registry unchanged and emits nothing.
C3_NonHostIgnored ==
    [][\A socket \in SocketIds, code \in CodeSpace :
        ( /\ has(code)
          /\ get(code).hostSocketId # socket
          /\ HostRequest(socket, code) )
        => /\ UNCHANGED <<rooms, heap, server>>
           /\ out' = <<>>
    ]_vars

\* A room in play (clue picked, a winner on the buzzer, a score given) in
\* which socket 2 is a registered player and not the host, right after a
\* request that was ignored.
C3_Witness ==
    \E i \in 1..Len(rooms) :
        LET room == live[i]
        IN  /\ room.hostSocketId = 1
            /\ 2 \in DOMAIN room.players
            /\ room.active # NULL
            /\ room.buzzer.locked
            /\ room.teams[2].score = 100
            /\ out = <<>>

\* C4: newRound of the host keeps every team's score when keepScores is
\* true and sets every score to 0 when it is false; either way active is
\* null and the buzzer is {locked: false, winner: null} afterwards, and
\* team names, players, mode and turn are as before.
C4_NewRoundScores ==
    [][\A socket \in SocketIds, code \in CodeSpace, keepScores \in BOOLEAN,
          ddDraws \in RoundInputs.roundDraws :
        ( /\ isHost(socket, code)
          /\ newRound(socket, code, keepScores, ddDraws) )
        => LET before == get(code)
               after == get(code)'
           IN  /\ Len(after.teams) = Len(before.teams)
               /\ \A t \in 1..Len(before.teams) :
                    /\ after.teams[t].name = before.teams[t].name
                    /\ after.teams[t].score =
                          IF keepScores THEN before.teams[t].score ELSE 0
               /\ after.active = NULL
               /\ after.buzzer = Unlocked
               /\ after.players = before.players
               /\ after.mode = before.mode
               /\ after.turn = before.turn
    ]_vars

\* A board that only newRound deals (its daily doubles are those of the
\* round draws), still carrying a score, a renamed team, a moved turn and a
\* player from the round before.
C4_Witness ==
    \E i \in 1..Len(rooms) :
        LET room == live[i]
        IN  /\ cell(room, 2, 1).dd
            /\ room.teams[2].score = 100
            /\ room.teams[1].score = 0
            /\ room.teams[3].name = StrRed
            /\ room.turn.teamIndex = Num(1)
            /\ room.players # <<>>
            /\ room.mode = "TURNS"
            /\ room.active = NULL
            /\ room.buzzer = Unlocked
            /\ usedCells(room) = {}
            /\ LastWasUpdateOf(room)

\* C5: closeClue(markUsed = true) of the host with a clue active marks
\* exactly that clue used and clears active; with no clue active, as after
\* a first closeClue, it changes no used flag and nothing else of the room.
C5_CloseTwice ==
    [][\A socket \in SocketIds, code \in CodeSpace :
        ( /\ isHost(socket, code)
          /\ closeClue(socket, code, TRUE) )
        => LET before == get(code)
               after == get(code)'
           IN  IF before.active # NULL
               THEN /\ usedCells(after) = usedCells(before) \cup {activeCell(before)}
                    /\ after = [before EXCEPT
                                  !.active = NULL,
                                  !.game.categories[activeCell(before)[1] + 1]
                                    .clues[activeCell(before)[2] + 1].used = TRUE]
               ELSE /\ UNCHANGED <<rooms, heap>>
                    /\ usedCells(after) = usedCells(before)
    ]_vars

\* A clue has been closed as used: it is the only used one, no clue is
\* active, and the last request sent this state to the room.
C5_Witness ==
    \E i \in 1..Len(rooms) :
        LET room == live[i]
        IN  /\ usedCells(room) = {<<0, 1>>}
            /\ room.active = NULL
            /\ room.buzzer.locked
            /\ LastWasUpdateOf(room)

\* C6: in TURNS and in BUZZER rooms, nextTurn of the host moves
\* turn.teamIndex from t in {0, 1, 2} to (t + 1) mod 3, and three of them
\* in a row bring it back to t.
C6_NextTurnCycles ==
    [][\A socket \in SocketIds, code \in CodeSpace :
        ( /\ isHost(socket, code)
          /\ get(code).turn.teamIndex \in {Num(0), Num(1), Num(2)}
          /\ nextTurn(socket, code) )
        => LET t == get(code).turn.teamIndex \div 2
           IN  /\ get(code)'.turn.teamIndex = Num((t + 1) % 3)
               /\ nextTeam(nextTeam(nextTeam(Num(t)))) = Num(t)
    ]_vars

\* setTurn is only ever asked for team 1 here, so team 2 has the turn only
\* through nextTurn; a TURNS and a BUZZER room are both to be found so.
C6_Witness ==
    \E i \in 1..Len(rooms) :
        LET room == live[i]
        IN  /\ room.mode = "TURNS"
            /\ room.turn.teamIndex = Num(2)
            /\ LastWasUpdateOf(room)

\* C9: in every room of the registry, buzzer.winner is non-null only if
\* buzzer.locked is true.
C9_WinnerOnlyIfLocked ==
    \A i \in 1..Len(rooms) :
        live[i].buzzer.winner # NULL => live[i].buzzer.locked = TRUE

\* A player holds the buzzer.
C9_Witness ==
    \E i \in 1..Len(rooms) :
        /\ live[i].buzzer.winner # NULL
        /\ live[i].buzzer.winner.name = StrAl
        /\ live[i].active # NULL
        /\ live[i].active.showing = "a"

\* C10: within a board, a clue's used flag only ever goes from false to
\* true, and only in a closeClue(markUsed = true) of the host taken while
\* that clue is the active one; every other step in which the room keeps
\* its board leaves all used flags as they are.  newRound deals a new board.
C10_UsedOnlyByClose ==
    [][\A code \in CodeSpace :
        ( /\ has(code)
          /\ has(code)'
          /\ usedCells(get(code)') # usedCells(get(code))
          /\ ~ \E keepScores \in BOOLEAN, ddDraws \in GameInputs.roundDraws :
                  newRound(get(code).hostSocketId, code, keepScores, ddDraws) )
        => LET before == get(code)
               after == get(code)'
           IN  /\ before.active # NULL
               /\ activeCell(before) \notin usedCells(before)
               /\ usedCells(after) = usedCells(before) \cup {activeCell(before)}
               /\ closeClue(before.hostSocketId, code, TRUE)
    ]_vars

\* On a board dealt by newRound two clues were used one after the other,
\* with players and a score in the room.
C10_Witness ==
    \E i \in 1..Len(rooms) :
        LET room == live[i]
        IN  /\ cell(room, 2, 1).dd
            /\ usedCells(room) = {<<0, 1>>, <<5, 4>>}
            /\ room.active = NULL
            /\ room.players # <<>>
            /\ room.teams[2].score = 100
            /\ LastWasUpdateOf(room)

(***************************************************************************)
(* Properties of the registry and of the boards, for both servers.         *)
(***************************************************************************)
\* C7: no step binds the code of a room of the registry to another room
\* object, so no createRoom, overlapping ones included, replaces a live
\* room: it registers under a code that no live room holds.
C7_CreateNeverReplaces ==
    [][\A code \in CodeSpace :
        (has(code) /\ has(code)') => refOf(code)' = refOf(code)
    ]_vars

\* 6 categories of 5 clues, each clue with its row's value, a question
\* text, an answer text and a used flag; exactly 2 clues are daily doubles
\* and none of them is in row 0
WellFormed(game) ==
    /\ Len(game.categories) = 6
    /\ \A c \in 1..Len(game.categories) :
        /\ Len(game.categories[c].clues) = 5
        /\ \A r \in 1..Len(game.categories[c].clues) :
            LET clue == game.categories[c].clues[r]
            IN  /\ DOMAIN clue = {"value", "q", "a", "used", "dd"}
                /\ clue.value = VALUE_ROWS[r]
                /\ clue.q # ""
                /\ clue.a # ""
                /\ clue.used \in BOOLEAN
                /\ clue.dd \in BOOLEAN
    /\ Cardinality({k \in Cells :
                      game.categories[k[1] + 1].clues[k[2] + 1].dd}) = 2
    /\ \A c \in 1..Len(game.categories) : ~game.categories[c].clues[1].dd

\* the board with every used flag lowered
Blank(game) ==
    [game EXCEPT !.categories =
        [c \in 1..Len(@) |->
            [@[c] EXCEPT !.clues = [r \in 1..Len(@) |-> [@[r] EXCEPT !.used = FALSE]]]]]

\* C8: after every step, every room's board is well formed (6 x 5 clues
\* with value, question and answer, exactly 2 daily doubles, none in row
\* 0), and it either has no used clue, as every board that createRoom or
\* newRound has just dealt, or it is the board the room had before the
\* step with some used flags changed.  This holds for every daily-double
\* draw, bank and provider answer explored.
C8_BoardsWellFormed ==
    [][\A i \in 1..Len(rooms') :
        LET after == live'[i]
        IN  /\ WellFormed(after.game)
            /\ \/ after.game = Blank(after.game)
               \/ \E j \in 1..Len(rooms) :
                    /\ rooms[j] = rooms'[i]
                    /\ Blank(live[j].game) = Blank(after.game)
    ]_vars

\* The OpenTDB server has just dealt a room a new board while the provider
\* had no question for some clues: placeholders stand in their place, and
\* the daily doubles are on the first and the last position that count.
C8_Witness ==
    /\ program = "part_002"
    /\ \E i \in 1..Len(rooms) :
        LET room == live[i]
        IN  /\ cell(room, 0, 0).q = "Q"
            /\ cell(room, 3, 0) = fallbackClue("Pop Culture", 100, "easy")
            /\ cell(room, 0, 1).dd
            /\ cell(room, 5, 4).dd
            /\ usedCells(room) = {}
            /\ room.teams[2].score = 0
            /\ pending = {}
            /\ LastWasUpdateOf(room)

(***************************************************************************)
(* Properties of turns, checked under SpecRounds.                          *)
(***************************************************************************)
\* C11: turn.teamIndex of a room changes only in a step that is a setTurn
\* or a nextTurn of the room's host; pickClue, showAnswer, closeClue, buzz,
\* unlockBuzzer, score, renameTeam, newRound, join and a player's
\* disconnect leave it as it is.
C11_TurnOnlyByHost ==
    [][\A code \in CodeSpace :
        ( /\ has(code)
          /\ has(code)'
          /\ get(code)'.turn # get(code).turn )
        => \/ nextTurn(get(code).hostSocketId, code)
           \/ \E teamIndex \in RoundInputs.turnTeams :
                setTurn(get(code).hostSocketId, code, teamIndex)
    ]_vars

\* The turn was moved on to team 2 and has stayed there through a new
\* round, a score, a played clue and a player's buzz.
C11_Witness ==
    \E i \in 1..Len(rooms) :
        LET room == live[i]
        IN  /\ room.mode = "BUZZER"
            /\ room.turn.teamIndex = Num(2)
            /\ cell(room, 2, 1).dd
            /\ room.teams[2].score = -100
            /\ room.active # NULL
            /\ room.buzzer.locked

(***************************************************************************)
(* Team indexes, checked under SpecIndexes.                                *)
(***************************************************************************)
TeamIndexes == {Num(0), Num(1), Num(2)}

\* C12: in every room, teams has exactly 3 entries and every stored
\* teamIndex (of each registered player, of turn, of buzzer.winner) is 0, 1
\* or 2, whatever teamIndex join, setTurn, score and renameTeam were given
\* (negative, greater than 2, non-integer, not a number).
C12_TeamIndexesValid ==
    \A i \in 1..Len(rooms) :
        LET room == live[i]
        IN  /\ Len(room.teams) = 3
            /\ \A id \in DOMAIN room.players : room.players[id].teamIndex \in TeamIndexes
            /\ room.turn.teamIndex \in TeamIndexes
            /\ room.buzzer.winner # NULL => room.buzzer.winner.teamIndex \in TeamIndexes

(***************************************************************************)
(* C13.  When the host connection of a room disconnects, room:ended is     *)
(* broadcast to the room's channel and the room leaves the registry in     *)
(* the same step; from then on a player:join with that code is answered    *)
(* with room:error.  Stated for every room the leaving socket hosts.       *)
(***************************************************************************)
hostedBy(socket) == {code \in CodeSpace : has(code) /\ get(code).hostSocketId = socket}

C13_HostDisconnectEndsRoom ==
    [][\A socket \in SocketIds : \A code \in hostedBy(socket) :
          disconnect(socket)
          => /\ ~has(code)'
             /\ \E k \in 1..Len(out') : out'[k].ev = "room:ended" /\ out'[k].code = code
    ]_vars

(***************************************************************************)
(* C14.  A room leaves the registry only in the step in which its own host *)
(* connection disconnects.  The disconnect of a connection that hosts no   *)
(* room and plays in one removes that connection's entry from the room's   *)
(* players and nothing else, broadcasts one room:update of that room and   *)
(* no room:ended, and leaves every room registered, also when the players  *)
(* become empty.                                                           *)
(***************************************************************************)
playsIn(socket) == {code \in CodeSpace : has(code) /\ socket \in DOMAIN get(code).players}

C14_OnlyHostDisconnectRemoves ==
    [][/\ \A code \in CodeSpace :
            (has(code) /\ ~has(code)')
            => get(code).hostSocketId \in open \ open'
       /\ \A socket \in open \ open' :
            (hostedBy(socket) = {} /\ playsIn(socket) # {})
            => /\ rooms' = rooms
               /\ \E code \in playsIn(socket) :
                    /\ heap' = [heap EXCEPT ![refOf(code)].players =
                                   [id \in DOMAIN @ \ {socket} |-> @[id]]]
                    /\ Len(out') = 1
                    /\ out'[1].ev = "room:update"
                    /\ out'[1].code = code
                    /\ out'[1].state = publicState(heap'[refOf(code)])
    ]_vars

\* the one player of a room buzzed and then left; the room is still there
C14_Witness ==
    /\ has(CodeA)
    /\ get(CodeA).hostSocketId = 1
    /\ 1 \in open
    /\ 2 \notin open
    /\ DOMAIN get(CodeA).players = {}
    /\ get(CodeA).buzzer.winner # NULL
    /\ Len(out) = 1
    /\ out[1].ev = "room:update"
    /\ out[1].state.players = {}
    /\ out[1].to = {1}

(***************************************************************************)
(* C15.  In every reachable state each connection belongs to at most one   *)
(* room: over all rooms of the registry it is host or registered player of *)
(* at most one.                                                            *)
(***************************************************************************)
C15_OneRoomPerSocket ==
    \A socket \in SocketIds : Cardinality(hostedBy(socket) \cup playsIn(socket)) <= 1

(***************************************************************************)
(* C16.  Every request that names a code no room has (player:join,         *)
(* player:buzz and the host requests) leaves the registry and every room   *)
(* as they were and is answered to the calling socket alone with           *)
(* room:error and a message.                                               *)
(***************************************************************************)
LobbyRequest(socket, code) ==
    \/ \E j \in LobbyInputs.joins : join(socket, code, j.playerName, j.teamIndex)
    \/ buzz(socket, code)
    \/ \E pick \in LobbyInputs.picks : pickClue(socket, code, pick.catIdx, pick.rowIdx)
    \/ showAnswer(socket, code)
    \/ \E markUsed \in LobbyInputs.markUsed : closeClue(socket, code, markUsed)
    \/ \E sc \in LobbyInputs.scores : score(socket, code, sc.teamIndex, sc.delta)
    \/ \E rn \in LobbyInputs.renames : renameTeam(socket, code, rn.teamIndex, rn.name)
    \/ \E teamIndex \in LobbyInputs.turnTeams : setTurn(socket, code, teamIndex)
    \/ nextTurn(socket, code)
    \/ unlockBuzzer(socket, code)
    \/ \E keepScores \in LobbyInputs.keepScores, ddDraws \in LobbyInputs.roundDraws :
            newRound(socket, code, keepScores, ddDraws)

C16_UnknownCodeGetsError ==
    [][\A socket \in SocketIds : \A code \in LobbyInputs.joinCodes :
          (~has(code) /\ LobbyRequest(socket, code))
          => /\ UNCHANGED <<rooms, heap>>
             /\ out' = <<roomError(socket)>>
    ]_vars

(***************************************************************************)
(* C17.  No snapshot sent in room:created, room:update or player:joined    *)
(* has a hostSocketId or usedQuestionIds field, and no entry of its        *)
(* players carries the host's connection id, also when the host has        *)
(* joined its own room as a player.                                        *)
(***************************************************************************)
Snapshots ==
    {out[k].state : k \in {k \in 1..Len(out) :
                              out[k].ev \in {"room:created", "room:update", "player:joined"}}}

C17_SnapshotHidesHost ==
    \A state \in Snapshots :
        /\ "hostSocketId" \notin DOMAIN state
        /\ "usedQuestionIds" \notin DOMAIN state
        /\ has(state.code)
           => \A player \in state.players :
                  "id" \in DOMAIN player => player.id # get(state.code).hostSocketId

(***************************************************************************)
(* C18.  Every code the generator returns, whatever the random draws, has  *)
(* length 5 and none of the characters 0, O, 1, I, L.  Stated of the codes *)
(* of the registry, each of which is a value makeCode returned.            *)
(***************************************************************************)
Ambiguous == {"0", "O", "1", "I", "L"}

C18_CodesUnambiguous ==
    \A i \in 1..Len(rooms) :
        /\ Len(rooms[i].code) = 5
        /\ \A k \in 1..Len(rooms[i].code) : rooms[i].code[k] \notin Ambiguous

(***************************************************************************)
(* C19.  Code generation inside host:createRoom always ends: no call of    *)
(* the handler is left drawing codes forever, also not when every code is  *)
(* held by a room.                                                         *)
(***************************************************************************)
C19_CreateRoomEnds == server # "hung"

(***************************************************************************)
(* C20.  While a host:newRound of the OpenTDB server is suspended at its   *)
(* await for a room, no host:pickClue, player:buzz or host:score on that   *)
(* room takes effect: such a step leaves the room as it was.               *)
(***************************************************************************)
rebuilding(code) ==
    /\ has(code)
    /\ \E p \in pending : p.kind = "newRound" /\ p.ref = refOf(code)

C20_NoEffectDuringRebuild ==
    [][\A code \in TdbInputs.codes : \A socket \in SocketIds :
          ( /\ rebuilding(code)
            /\ \/ \E pick \in TdbInputs.picks :
                     pickClue(socket, code, pick.catIdx, pick.rowIdx)
               \/ buzz(socket, code)
               \/ \E sc \in TdbInputs.scores : score(socket, code, sc.teamIndex, sc.delta) )
          => get(code)' = get(code)
    ]_vars

(***************************************************************************)
(* C21.  A host:pickClue sent while a clue is active and naming another    *)
(* cell changes nothing of the room and broadcasts nothing.                *)
(***************************************************************************)
C21_PickWhileOtherActive ==
    [][\A code \in PlayInputs.codes : \A socket \in PlayInputs.hosts :
       \A pick \in PlayInputs.picks :
          ( /\ isHost(socket, code)
            /\ get(code).active # NULL
            /\ <<get(code).active.catIdx, get(code).active.rowIdx>>
                  # <<pick.catIdx, pick.rowIdx>>
            /\ pickClue(socket, code, pick.catIdx, pick.rowIdx) )
          => /\ get(code)' = get(code)
             /\ out' = <<>>
    ]_vars

(***************************************************************************)
(* C22.  A host:pickClue that names a cell off the board (catIdx outside   *)
(* 0..5, rowIdx outside 0..4, or no index at all) or a cell whose used     *)
(* flag is set changes nothing: the active clue and the buzzer, a locked   *)
(* one with its winner included, stay as they were and nothing is sent.    *)
(***************************************************************************)
onBoard(pick) ==
    \E k \in Cells : pick.catIdx = JsNum(Num(k[1])) /\ pick.rowIdx = JsNum(Num(k[2]))

invalidTarget(room, pick) ==
    IF onBoard(pick) THEN cell(room, pick.catIdx.h \div 2, pick.rowIdx.h \div 2).used
    ELSE TRUE

C23_WinnerKeptUntilPickOrUnlock ==
    [][\A code \in PlayInputs.codes :
          ( /\ has(code) /\ has(code)'
            /\ get(code).buzzer.locked
            /\ get(code).buzzer.winner # NULL
            /\ get(code)'.buzzer # get(code).buzzer )
          => \/ unlockBuzzer(get(code).hostSocketId, code)
             \/ \E pick \in PlayInputs.picks :
                    pickClue(get(code).hostSocketId, code, pick.catIdx, pick.rowIdx)
    ]_vars

(***************************************************************************)
(* C24.  A player:buzz changes nothing and sends nothing when the room is  *)
(* in TURNS mode, no clue is active, the buzzer is locked, or the socket   *)
(* is no registered player of the room (the host that did not join        *)
(* included); in every other case it is accepted: the buzzer is locked on  *)
(* the buzzing player and the room:update is broadcast.                    *)
(***************************************************************************)
buzzRefused(room, socket) ==
    \/ room.mode = "TURNS"
    \/ room.active = NULL
    \/ room.buzzer.locked
    \/ socket \notin DOMAIN room.players

C24_BuzzRefusedOrAccepted ==
    [][\A code \in PlayInputs.codes : \A socket \in PlayInputs.buzzers :
          (has(code) /\ buzz(socket, code))
          => IF buzzRefused(get(code), socket)
             THEN /\ get(code)' = get(code)
                  /\ out' = <<>>
             ELSE /\ get(code)' =
                        [get(code) EXCEPT !.buzzer =
                            [locked |-> TRUE,
                             winner |-> [name |-> get(code).players[socket].name,
                                         teamIndex |-> get(code).players[socket].teamIndex]]]
                  /\ out' = <<roomUpdate(code, get(code)')>>
    ]_vars

\* a registered player's buzz on an active clue of a TURNS room was refused
C24_Witness ==
    /\ has(CodeA)
    /\ get(CodeA).mode = "TURNS"
    /\ get(CodeA).active # NULL
    /\ 2 \in DOMAIN get(CodeA).players
    /\ get(CodeA).buzzer = Unlocked
    /\ open = SocketIds
    /\ out = <<>>

(***************************************************************************)
(* C25.  The host's unlockBuzzer sets the buzzer to unlocked with no       *)
(* winner from every buzzer state, with or without an active clue, and     *)
(* changes nothing else of the room: the active clue and what it shows,    *)
(* the board, teams, players and turn stay.  After it every registered     *)
(* player, the previous winner too, passes the checks of a buzz on the     *)
(* clue still active in a BUZZER room.                                     *)
(***************************************************************************)
C25_UnlockResetsBuzzerOnly ==
    [][\A code \in PlayInputs.codes : \A socket \in PlayInputs.hosts :
          (isHost(socket, code) /\ unlockBuzzer(socket, code))
          => /\ get(code)'.buzzer = [locked |-> FALSE, winner |-> NULL]
             /\ \A f \in DOMAIN get(code) \ {"buzzer"} : get(code)'[f] = get(code)[f]
             /\ out' = <<roomUpdate(code, get(code)')>>
             /\ (get(code)'.mode = "BUZZER" /\ get(code)'.active # NULL)
                => \A id \in DOMAIN get(code)'.players : ~buzzRefused(get(code)', id)
    ]_vars

\* what an unlock leaves behind: the clue still active with its answer
\* shown, both players in the room, the buzzer open, the snapshot sent
C25_Witness ==
    /\ has(CodeA)
    /\ get(CodeA).mode = "BUZZER"
    /\ get(CodeA).active # NULL
    /\ get(CodeA).active.showing = "a"
    /\ DOMAIN get(CodeA).players = {1, 2}
    /\ get(CodeA).buzzer = Unlocked
    /\ LastWasUpdateOf(get(CodeA))

(***************************************************************************)
(* C26.  The host's closeClue on a room with an active clue clears the     *)
(* active clue for either value of markUsed, sets the used flag of the     *)
(* clue that was active exactly when markUsed is true, changes the used    *)
(* flag of no other clue, and leaves the buzzer as it was, a locked one    *)
(* with its winner included.                                               *)
(***************************************************************************)
C26_CloseClearsActiveOnly ==
    [][\A code \in PlayInputs.codes : \A socket \in PlayInputs.hosts :
       \A markUsed \in PlayInputs.markUsed :
          ( /\ isHost(socket, code)
            /\ get(code).active # NULL
            /\ closeClue(socket, code, markUsed) )
          => LET room == get(code)
                 k == activeCell(room)
             IN  /\ get(code)'.active = NULL
                 /\ get(code)'.buzzer = room.buzzer
                 /\ cell(get(code)', k[1], k[2]) =
                        [cell(room, k[1], k[2]) EXCEPT !.used = @ \/ markUsed]
                 /\ \A c \in Cells \ {k} :
                        cell(get(code)', c[1], c[2]) = cell(room, c[1], c[2])
                 /\ \A f \in DOMAIN room \ {"active", "game"} : get(code)'[f] = room[f]
                 /\ out' = <<roomUpdate(code, get(code)')>>
    ]_vars

\* a clue was closed unmarked after a buzz: nothing is active or used, and
\* the buzzer is still locked on its winner
C26_Witness ==
    /\ has(CodeA)
    /\ get(CodeA).active = NULL
    /\ usedCells(get(CodeA)) = {}
    /\ get(CodeA).buzzer.locked
    /\ get(CodeA).buzzer.winner # NULL
    /\ LastWasUpdateOf(get(CodeA))

(***************************************************************************)
(* C27.  For every teamIndex and every integer delta the host's score      *)
(* adds delta to the score of exactly the team at the clamped index, one   *)
(* of the three teams, and changes neither the other teams nor any other   *)
(* field of the room; no bound is applied to the sum.                      *)
(***************************************************************************)
C27_ScoreAddsToClampedTeam ==
    [][\A code \in IndexInputs.codes : \A socket \in IndexInputs.hosts :
       \A sc \in IndexInputs.scores :
          (isHost(socket, code) /\ score(socket, code, sc.teamIndex, sc.delta))
          => /\ server' = "up"
             /\ \E t \in 1..3 :
                  /\ Num(t - 1) = clampTeam(sc.teamIndex)
                  /\ get(code)' =
                        [get(code) EXCEPT !.teams[t].score = @ + sc.delta]
    ]_vars

(***************************************************************************)
(* C28.  The host's renameTeam sets the name of the team at the clamped    *)
(* index to the given name with leading and trailing whitespace removed,   *)
(* cut to 20 characters, and to "Team N" when the name is empty after      *)
(* trimming, a name of whitespace only included; scores and the other      *)
(* teams are unchanged.                                                    *)
(***************************************************************************)
C28_RenameTrimsAndCaps ==
    [][\A code \in TeamInputs.codes : \A socket \in TeamInputs.hosts :
       \A rn \in TeamInputs.renames :
          (isHost(socket, code) /\ renameTeam(socket, code, rn.teamIndex, rn.name))
          => \E t \in 1..3 :
               /\ Num(t - 1) = clampTeam(rn.teamIndex)
               /\ get(code)' =
                     [get(code) EXCEPT !.teams[t].name =
                         slice(OrElse(trim(rn.name), StrTeam(t)), 20)]
    ]_vars

(***************************************************************************)
(* C29.  A player:join from a socket that is already a registered player   *)
(* of the room changes neither its registered name nor its teamIndex and   *)
(* adds no second entry for it.                                            *)
(***************************************************************************)
C29_JoinOnce ==
    [][\A code \in PlayInputs.codes : \A j \in PlayInputs.joins :
          ( /\ has(code)
            /\ j.socket \in DOMAIN get(code).players
            /\ join(j.socket, code, j.playerName, j.teamIndex) )
          => get(code)'.players = get(code).players
    ]_vars

(***************************************************************************)
(* C30.  A room:update is broadcast only by a step that changed the room:  *)
(* a step that leaves the room as it was (closeClue with no active clue,   *)
(* showAnswer with the answer already shown, unlockBuzzer on an open       *)
(* buzzer, setTurn to the current team, every refused request) sends no    *)
(* room:update.                                                            *)
(***************************************************************************)
C30_UpdateOnlyOnChange ==
    [][\A code \in PlayInputs.codes :
          ( /\ has(code) /\ has(code)'
            /\ \E k \in 1..Len(out') :
                 out'[k].ev = "room:update" /\ out'[k].code = code )
          => get(code)' # get(code)
    ]_vars

(***************************************************************************)
(* C31.  In every reachable state the host of every room of the registry   *)
(* is a connected socket and so is every registered player: no room        *)
(* refers to a socket that has disconnected.                               *)
(***************************************************************************)
C31_NoDeadReferences ==
    \A i \in 1..Len(rooms) :
        /\ live[i].hostSocketId \in open
        /\ DOMAIN live[i].players \subseteq open

(***************************************************************************)
(* C32.  Every room:update is delivered only to sockets that are, when it  *)
(* is sent, the host or a registered player of the live room whose         *)
(* snapshot it carries: none is delivered for a code that has no room,     *)
(* and none of a new room reaches the players of an ended room that had    *)
(* the same code.                                                          *)
(***************************************************************************)
C32_UpdatesOnlyToMembers ==
    \A k \in 1..Len(out) :
        out[k].ev = "room:update"
        => \A id \in out[k].to :
              /\ has(out[k].code)
              /\ \/ get(out[k].code).hostSocketId = id
                 \/ id \in DOMAIN get(out[k].code).players

(***************************************************************************)
(* C33.  In every reachable state the active clue of a room, when there    *)
(* is one, names a cell of the room's current board (catIdx in 0..5,       *)
(* rowIdx in 0..4) whose used flag is false, also across newRound and for  *)
(* a pick handled while a newRound awaits its board.                       *)
(***************************************************************************)
activeOnBoard(room) ==
    room.active # NULL
    => /\ room.game # NULL
       /\ onBoard(room.active)
       /\ ~cell(room, activeCell(room)[1], activeCell(room)[2]).used

=============================================================================
